---- MODULE Spec2Model ----
(***************************************************************************)
(* Dual-tier persistence of the personal finance tracker:                  *)
(* DatabaseService (src/src/services/storageService.ts) over an IndexedDB  *)
(* database (the primary store) and localStorage (the backup store).       *)
(*                                                                         *)
(* One IndexedDB transaction is one atomic step: the engine runs           *)
(* transactions with overlapping scope in creation order, and a promise    *)
(* continuation runs in the microtask checkpoint of the event that         *)
(* settles it, before any other storage event is delivered.                *)
(***************************************************************************)
EXTENDS Integers, Sequences, FiniteSets, TLC

VARIABLES
    initState,     \* initPromise/db: "Initializing", "Ready" (db set), "Failed" (rejected, db null)
    transactions,  \* object store STORES.TRANSACTIONS: committed records, keyPath id
    categories,    \* object store STORES.CATEGORIES: committed records, keyPath id
    localStorage,  \* the three BACKUP_KEYS: <<>> (no entry) or <<string>>
    queue,         \* operations in flight, in the order they were called
    last,          \* how the latest caller operation settled
    mirror,        \* how the latest backupToLocalStorage run ended
    calls,         \* caller operations and reloads so far
    app            \* AppProvider: the reducer state, initError and where initializeData stands

vars == <<initState, transactions, categories, localStorage, queue, last, mirror, calls, app>>

(***************************************************************************)
(* Bounds of the model.                                                    *)
(***************************************************************************)
MaxCalls == 2      \* caller operations (and reloads) in one behaviour
MaxOps == 2        \* caller operations in flight at the same time

(***************************************************************************)
(* Values.                                                                 *)
(***************************************************************************)
Undefined == "undefined"     \* the JavaScript value undefined (Category.color is optional)

\* T1 is labelled with CatA's name and type
T1 == [id |-> "t1", amount |-> 50, type |-> "income", category |-> "salary", createdAt |-> "d1"]
T2 == [id |-> "t2", amount |-> 75, type |-> "expense", category |-> "transit", createdAt |-> "d2"]
T1dup == [id |-> "t1", amount |-> 75, type |-> "expense", category |-> "transit", createdAt |-> "d3"]
CatA == [id |-> "c1", name |-> "salary", type |-> "income", color |-> "#10B981"]
CatB == [id |-> "c2", name |-> "food", type |-> "expense", color |-> "#EF4444"]
CatBdup == [id |-> "c2", name |-> "meals", type |-> "expense", color |-> "#DC2626"]
CatNoId == [name |-> "salary", type |-> "income"]   \* a record of a JSON file, no id

TxInputs == {T1, T2}
CatInputs == {CatA}
TxIds == {"t1", "t2"}
CatIds == {"c1"}
TxPatches == {[amount |-> 75], [amount |-> 60, category |-> "bonus"], [id |-> "t2"]}
CatPatches == {[name |-> "wage", color |-> Undefined]}
\* IndexedDB orders string keys
KeyOrder == <<"1", "10", "11", "2", "3", "4", "5", "6", "7", "8", "9", "c1", "c2", "t1", "t2">>

\* the names are 工资 兼职 投资收益 其他收入 餐饮 交通 购物 娱乐 住房 医疗 其他支出
defaultCategories ==
    << [id |-> "1", name |-> "salary", type |-> "income", color |-> "#10B981"],
       [id |-> "2", name |-> "part-time", type |-> "income", color |-> "#059669"],
       [id |-> "3", name |-> "investment", type |-> "income", color |-> "#047857"],
       [id |-> "4", name |-> "other income", type |-> "income", color |-> "#065F46"],
       [id |-> "5", name |-> "dining", type |-> "expense", color |-> "#EF4444"],
       [id |-> "6", name |-> "transport", type |-> "expense", color |-> "#DC2626"],
       [id |-> "7", name |-> "shopping", type |-> "expense", color |-> "#B91C1C"],
       [id |-> "8", name |-> "entertainment", type |-> "expense", color |-> "#991B1B"],
       [id |-> "9", name |-> "housing", type |-> "expense", color |-> "#7F1D1D"],
       [id |-> "10", name |-> "medical", type |-> "expense", color |-> "#450A0A"],
       [id |-> "11", name |-> "other expense", type |-> "expense", color |-> "#450A0A"] >>

EmptyData == [transactions |-> <<>>, categories |-> <<>>]
ImportGood == [transactions |-> <<T2>>, categories |-> <<CatB>>]
ImportDup == [transactions |-> <<T1, T1dup>>, categories |-> <<CatB>>]
ImportNoId == [transactions |-> <<T2>>, categories |-> <<CatNoId>>]
ImportDupCat == [transactions |-> <<T2>>, categories |-> <<CatB, CatBdup>>]
ImportInputs == {ImportGood, ImportDup, ImportDupCat, ImportNoId}

Range(s) == {s[i] : i \in DOMAIN s}

(***************************************************************************)
(* Object store requests.                                                  *)
(***************************************************************************)
HasKey(r) == "id" \in DOMAIN r

Keys(store) == {r.id : r \in store}

\* IDBObjectStore.get: <<record>> or <<>> (undefined)
Get(store, id) == IF id \in Keys(store) THEN <<CHOOSE r \in store : r.id = id>> ELSE <<>>

\* IDBObjectStore.put: insert or replace under the record's own key
Put(store, r) == {x \in store : x.id # r.id} \cup {r}

\* IDBObjectStore.delete
Delete(store, id) == {x \in store : x.id # id}

\* IDBObjectStore.getAll: every record, in key order
GetAll(store) ==
    LET ks == SelectSeq(KeyOrder, LAMBDA k : k \in Keys(store))
    IN [i \in DOMAIN ks |-> CHOOSE r \in store : r.id = ks[i]]

\* (mutation) store.put({ id, ...updates }): the fields of the stored record are dropped
MergeOntoKey(existing, updates) ==
    [f \in {"id"} \cup (DOMAIN updates) |->
        IF f \in DOMAIN updates THEN updates[f] ELSE existing[f]]

\* { ...existing, ...updates }
Merge(existing, updates) ==
    [f \in (DOMAIN existing) \cup (DOMAIN updates) |->
        IF f \in DOMAIN updates THEN updates[f] ELSE existing[f]]

(***************************************************************************)
(* JSON.stringify / JSON.parse of an array of records: a property whose    *)
(* value is undefined is left out of the text.                             *)
(***************************************************************************)
OptionalFields == {"color"}

DropUndefined(r) ==
    [f \in {g \in DOMAIN r : ~(g \in OptionalFields /\ r[g] = Undefined)} |-> r[f]]

Stringify(arr) == [json |-> [i \in DOMAIN arr |-> DropUndefined(arr[i])]]

Parse(str) == str.json

\* a text JSON.parse throws on, and whether it parses a text
Corrupt == [raw |-> "[{"]

Parseable(str) == "json" \in DOMAIN str

NoBackup == [TRANSACTIONS |-> <<>>, CATEGORIES |-> <<>>, LAST_SYNC |-> <<>>]

\* (mutation) `||` for `&&`: one backup entry is enough
RestoreEitherEntry(ls, readable) ==
    IF readable /\ (ls.TRANSACTIONS # <<>> \/ ls.CATEGORIES # <<>>)
    THEN <<[transactions |-> IF ls.TRANSACTIONS # <<>> THEN Parse(ls.TRANSACTIONS[1]) ELSE <<>>,
            categories |-> IF ls.CATEGORIES # <<>> THEN Parse(ls.CATEGORIES[1]) ELSE <<>>]>>
    ELSE <<>>

\* restoreFromLocalStorage: <<data>> or <<>> (null); readable = getItem does not throw
RestoreFromLocalStorage(ls, readable) ==
    IF /\ readable /\ ls.TRANSACTIONS # <<>> /\ ls.CATEGORIES # <<>>
       /\ Parseable(ls.TRANSACTIONS[1]) /\ Parseable(ls.CATEGORIES[1])
    THEN <<[transactions |-> Parse(ls.TRANSACTIONS[1]),
            categories |-> Parse(ls.CATEGORIES[1])]>>
    ELSE <<>>

(***************************************************************************)
(* Operations in flight.  A queue entry is an operation that has been      *)
(* called and whose IndexedDB transaction has not run yet; ensureDB makes  *)
(* every operation wait for initPromise, so the transactions are created   *)
(* in the order of the calls.                                              *)
(***************************************************************************)
Task(op, arg, phase) == [op |-> op, arg |-> arg, phase |-> phase]

TransactionOps == {"saveTransaction", "updateTransaction", "deleteTransaction",
                   "getAllTransactions"}
CategoryOps == {"saveCategory", "updateCategory", "deleteCategory", "getAllCategories"}
ReadOnlyOps == {"getAllTransactions", "getAllCategories", "backupToLocalStorage"}

\* the object stores named in db.transaction([...], mode)
Scope(t) ==
    IF t.op \in TransactionOps THEN {"transactions"}
    ELSE IF t.op \in CategoryOps THEN {"categories"}
    ELSE IF t.op = "backupToLocalStorage" THEN {t.phase}
    ELSE {"transactions", "categories"}

ReadWrite(t) ==
    /\ t.op \notin ReadOnlyOps
    /\ ~(t.op = "checkAndRecoverData" /\ t.phase = "getAllData")
    /\ t.op # "getStorageInfo"

Conflict(a, b) == Scope(a) \cap Scope(b) # {} /\ (ReadWrite(a) \/ ReadWrite(b))

\* a transaction starts once no earlier transaction of overlapping scope is live
CanRun(i) == \A j \in 1..(i - 1) : ~Conflict(queue[j], queue[i])

\* What the engine does with the transaction of queue[i]:
\*   "complete"    every request succeeds and the transaction commits
\*   "error"       a request fails (request.onerror), the transaction aborts
\*   "abort"       every request succeeds, then the commit fails (readwrite only)
\*   "unavailable" ensureDB throws: the database was never opened
\* (mutation) ensureDB does not await initPromise: db is still null while opening
OutcomesNoWait(i) ==
    IF initState # "Ready" THEN {"unavailable"}
    ELSE IF CanRun(i)
         THEN {"complete", "error"} \cup (IF ReadWrite(queue[i]) THEN {"abort"} ELSE {})
         ELSE {}

\* (mutation) ensureDB opens the database again when the first opening failed
OutcomesRetry(i) ==
    IF initState # "Initializing" /\ CanRun(i)
    THEN {"complete", "error"} \cup (IF ReadWrite(queue[i]) THEN {"abort"} ELSE {})
    ELSE {}

Outcomes(i) ==
    IF initState = "Failed" THEN {"unavailable"}
    ELSE IF initState = "Ready" /\ CanRun(i)
         THEN {"complete", "error"} \cup (IF ReadWrite(queue[i]) THEN {"abort"} ELSE {})
         ELSE {}

RequestSucceeds(o) == o \in {"complete", "abort"}

Remove(q, i) == SubSeq(q, 1, i - 1) \o SubSeq(q, i + 1, Len(q))

IsCaller(t) == t.op # "backupToLocalStorage"

NumCallers(q) == Len(SelectSeq(q, IsCaller))

BackupTask(type) ==
    Task("backupToLocalStorage", [type |-> type],
         IF type = "categories" THEN "categories" ELSE "transactions")

\* request.onsuccess of a mutation: this.backupToLocalStorage(type); resolve()
Spawned(o, type) == IF RequestSucceeds(o) THEN <<BackupTask(type)>> ELSE <<>>

\* mirror: "none", "running" (a backup was started), "ok" (it wrote the last-sync
\* entry) or "failed" (it ended in its catch block)
Started(spawned) == IF spawned # <<>> THEN "running" ELSE mirror

NoLast ==
    [op |-> "none", status |-> "none", error |-> "none", path |-> "none", result |-> EmptyData]

\* status: "ok" (resolved), "error" (rejected with error) or "never" (left pending)
Settled(op, status, error, result) ==
    [op |-> op, status |-> status, error |-> error, path |-> "none", result |-> result]

\* how a mutation whose requests are put/delete settles
MutationSettles(op, o) ==
    IF RequestSucceeds(o) THEN Settled(op, "ok", "none", EmptyData)
    ELSE Settled(op, "error", IF o = "unavailable" THEN "StorageUnavailable" ELSE "StorageFault",
                 EmptyData)

(***************************************************************************)
(* The initial state: the process has just constructed databaseService;    *)
(* both tiers hold what earlier sessions left.                             *)
(***************************************************************************)
\* initialState of the reducer, initError null, initializeData not started
initialState ==
    [step |-> "unmounted", idx |-> 0, loaded |-> <<>>,
     transactions |-> <<>>, categories |-> defaultCategories, isLoading |-> TRUE,
     storageInfo |-> <<>>, initError |-> "none"]

Synced(txs, cats) ==
    [TRANSACTIONS |-> <<Stringify(GetAll(txs))>>,
     CATEGORIES |-> <<Stringify(GetAll(cats))>>,
     LAST_SYNC |-> <<"iso">>]

Persisted ==
    { [transactions |-> {}, categories |-> {}, localStorage |-> NoBackup],
      [transactions |-> {}, categories |-> {}, localStorage |-> Synced({T1}, {CatA})],
      [transactions |-> {T1}, categories |-> {CatA}, localStorage |-> Synced({T1}, {CatA})] }

Init ==
    /\ initState = "Initializing"
    /\ \E p \in Persisted :
        /\ transactions = p.transactions
        /\ categories = p.categories
        /\ localStorage = p.localStorage
    /\ queue = <<>>
    /\ last = NoLast
    /\ mirror = "none"
    /\ calls = 0
    /\ app = initialState

(***************************************************************************)
(* initDatabase                                                            *)
(***************************************************************************)
OpenSuccess ==
    /\ initState = "Initializing"
    /\ initState' = "Ready"
    /\ UNCHANGED <<transactions, categories, localStorage, queue, last, mirror, calls, app>>

OpenError ==
    /\ initState = "Initializing"
    /\ initState' = "Failed"
    /\ UNCHANGED <<transactions, categories, localStorage, queue, last, mirror, calls, app>>

\* window.location.reload() or a crash: a new process, the tiers persist
Reload ==
    /\ calls < MaxCalls
    /\ calls' = calls + 1
    /\ initState' = "Initializing"
    /\ queue' = <<>>
    /\ last' = NoLast
    /\ mirror' = "none"
    /\ app' = initialState
    /\ UNCHANGED <<transactions, categories, localStorage>>

\* a caller may invoke an operation of databaseService
MayCall == calls < MaxCalls /\ NumCallers(queue) < MaxOps

(***************************************************************************)
(* saveTransaction / updateTransaction / deleteTransaction and the         *)
(* category twins.  The promise settles in request.onsuccess/onerror, the  *)
(* backup is started there, before the transaction has committed.          *)
(***************************************************************************)
\* (mutation) the put is made whether or not a record was found
Upserted(store, id, updates) ==
    Put(store, Merge(IF Get(store, id) = <<>> THEN [id |-> id] ELSE Get(store, id)[1], updates))

\* store.get(id), then store.put({...existing, ...updates}) when a record was found
Updated(store, id, updates) ==
    IF Get(store, id) = <<>> THEN store
    ELSE Put(store, Merge(Get(store, id)[1], updates))

\* how updateTransaction/updateCategory settles
UpdateSettles(op, store, id, o) ==
    IF RequestSucceeds(o) /\ Get(store, id) = <<>>
    THEN Settled(op, "error", "NotFound", EmptyData)
    ELSE MutationSettles(op, o)

\* the backup an update starts: only in putRequest.onsuccess
UpdateSpawned(store, id, o, type) ==
    IF Get(store, id) = <<>> THEN <<>> ELSE Spawned(o, type)

\* (mutation) the backup entry is written from the record at the call, before the commit
saveTransactionEager(i, o) ==
    /\ queue[i].op = "saveTransaction"
    /\ transactions' = IF o = "complete" THEN Put(transactions, queue[i].arg.record) ELSE transactions
    /\ queue' = Remove(queue, i)
    /\ last' = MutationSettles("saveTransaction", o)
    /\ localStorage' = [localStorage EXCEPT
          !.TRANSACTIONS = <<Stringify(GetAll(Put(transactions, queue[i].arg.record)))>>]
    /\ UNCHANGED <<initState, categories, mirror, calls, app>>

saveTransaction(i, o) ==
    /\ queue[i].op = "saveTransaction"
    /\ transactions' = IF o = "complete" THEN Put(transactions, queue[i].arg.record) ELSE transactions
    /\ queue' = Remove(queue, i) \o Spawned(o, "transactions")
    /\ last' = MutationSettles("saveTransaction", o)
    /\ mirror' = Started(Spawned(o, "transactions"))
    /\ UNCHANGED <<initState, categories, localStorage, calls, app>>

updateTransaction(i, o) ==
    /\ queue[i].op = "updateTransaction"
    /\ transactions' = IF o = "complete"
                       THEN Updated(transactions, queue[i].arg.id, queue[i].arg.updates)
                       ELSE transactions
    /\ queue' = Remove(queue, i) \o UpdateSpawned(transactions, queue[i].arg.id, o, "transactions")
    /\ last' = UpdateSettles("updateTransaction", transactions, queue[i].arg.id, o)
    /\ mirror' = Started(UpdateSpawned(transactions, queue[i].arg.id, o, "transactions"))
    /\ UNCHANGED <<initState, categories, localStorage, calls, app>>

\* (mutation) a delete that first looks the record up and rejects a missing id
deleteTransactionStrict(i, o) ==
    /\ queue[i].op = "deleteTransaction"
    /\ transactions' = IF o = "complete" THEN Delete(transactions, queue[i].arg.id) ELSE transactions
    /\ queue' = Remove(queue, i) \o UpdateSpawned(transactions, queue[i].arg.id, o, "transactions")
    /\ last' = UpdateSettles("deleteTransaction", transactions, queue[i].arg.id, o)
    /\ mirror' = Started(UpdateSpawned(transactions, queue[i].arg.id, o, "transactions"))
    /\ UNCHANGED <<initState, categories, localStorage, calls, app>>

deleteTransaction(i, o) ==
    /\ queue[i].op = "deleteTransaction"
    /\ transactions' = IF o = "complete" THEN Delete(transactions, queue[i].arg.id) ELSE transactions
    /\ queue' = Remove(queue, i) \o Spawned(o, "transactions")
    /\ last' = MutationSettles("deleteTransaction", o)
    /\ mirror' = Started(Spawned(o, "transactions"))
    /\ UNCHANGED <<initState, categories, localStorage, calls, app>>

getAllTransactions(i, o) ==
    /\ queue[i].op = "getAllTransactions"
    /\ queue' = Remove(queue, i)
    /\ last' = IF o = "complete"
               THEN Settled("getAllTransactions", "ok", "none",
                            [transactions |-> GetAll(transactions), categories |-> <<>>])
               ELSE MutationSettles("getAllTransactions", o)
    /\ UNCHANGED <<initState, transactions, categories, localStorage, mirror, calls, app>>

saveCategory(i, o) ==
    /\ queue[i].op = "saveCategory"
    /\ categories' = IF o = "complete" THEN Put(categories, queue[i].arg.record) ELSE categories
    /\ queue' = Remove(queue, i) \o Spawned(o, "categories")
    /\ last' = MutationSettles("saveCategory", o)
    /\ mirror' = Started(Spawned(o, "categories"))
    /\ UNCHANGED <<initState, transactions, localStorage, calls, app>>

updateCategory(i, o) ==
    /\ queue[i].op = "updateCategory"
    /\ categories' = IF o = "complete"
                     THEN Updated(categories, queue[i].arg.id, queue[i].arg.updates)
                     ELSE categories
    /\ queue' = Remove(queue, i) \o UpdateSpawned(categories, queue[i].arg.id, o, "categories")
    /\ last' = UpdateSettles("updateCategory", categories, queue[i].arg.id, o)
    /\ mirror' = Started(UpdateSpawned(categories, queue[i].arg.id, o, "categories"))
    /\ UNCHANGED <<initState, transactions, localStorage, calls, app>>

\* (mutation) the delete cascades to the transactions labelled with the category
deleteCategoryCascade(i, o) ==
    /\ queue[i].op = "deleteCategory"
    /\ categories' = IF o = "complete" THEN Delete(categories, queue[i].arg.id) ELSE categories
    /\ transactions' =
          IF o = "complete"
          THEN {t \in transactions :
                  \A c \in categories : c.id = queue[i].arg.id => t.category # c.name}
          ELSE transactions
    /\ queue' = Remove(queue, i) \o Spawned(o, "categories")
    /\ last' = MutationSettles("deleteCategory", o)
    /\ mirror' = Started(Spawned(o, "categories"))
    /\ UNCHANGED <<initState, localStorage, calls, app>>

deleteCategory(i, o) ==
    /\ queue[i].op = "deleteCategory"
    /\ categories' = IF o = "complete" THEN Delete(categories, queue[i].arg.id) ELSE categories
    /\ queue' = Remove(queue, i) \o Spawned(o, "categories")
    /\ last' = MutationSettles("deleteCategory", o)
    /\ mirror' = Started(Spawned(o, "categories"))
    /\ UNCHANGED <<initState, transactions, localStorage, calls, app>>

getAllCategories(i, o) ==
    /\ queue[i].op = "getAllCategories"
    /\ queue' = Remove(queue, i)
    /\ last' = IF o = "complete"
               THEN Settled("getAllCategories", "ok", "none",
                            [transactions |-> <<>>, categories |-> GetAll(categories)])
               ELSE MutationSettles("getAllCategories", o)
    /\ UNCHANGED <<initState, transactions, categories, localStorage, mirror, calls, app>>

(***************************************************************************)
(* importData: one readwrite transaction over both stores; clear, clear,   *)
(* then add every record inside a promise continuation.                    *)
(***************************************************************************)
\* the records store.add accepts: on a record without a key add throws DataError
\* inside the promise executor, which rejects that promise; forEach goes on
Keyed(arr) == SelectSeq(arr, HasKey)

\* two records of one array with the same key: the second add fails (ConstraintError)
Duplicate(arr) == \E i, j \in DOMAIN arr : i < j /\ arr[i].id = arr[j].id

\* the add requests placed by the two forEach loops
AddedTransactions(data) == Keyed(data.transactions)

AddedCategories(data) == Keyed(data.categories)

\* some store.add threw: Promise.all(promises) rejects, no request has failed
AddThrows(data) ==
    Keyed(data.transactions) # data.transactions \/ Keyed(data.categories) # data.categories

\* (mutation) put for add: a record of an id already added replaces the earlier one
RequestFailsPut(data, o) == o = "error"

\* a request fails: req.onerror/transaction.onerror reject and the transaction aborts
RequestFails(data, o) ==
    o = "error" \/ Duplicate(AddedTransactions(data)) \/ Duplicate(AddedCategories(data))

\* the transaction commits what its requests did
ImportCommits(data, o) == o = "complete" /\ ~RequestFails(data, o)

\* "ok" (resolve) or "error" (reject)
ImportStatus(data, o) ==
    IF o = "unavailable" \/ RequestFails(data, o) \/ AddThrows(data) THEN "error" ELSE "ok"

ImportedTransactions(data, o, store) ==
    IF ImportCommits(data, o) THEN Range(AddedTransactions(data)) ELSE store

\* (mutation) only the transactions are imported
ImportedCategoriesSkipped(data, o, store) == store

ImportedCategories(data, o, store) ==
    IF ImportCommits(data, o) THEN Range(AddedCategories(data)) ELSE store

ImportSpawned(data, o) ==
    IF ImportStatus(data, o) = "ok" THEN <<BackupTask("both")>> ELSE <<>>

ImportSettles(data, o) ==
    Settled("importData", ImportStatus(data, o),
            IF ImportStatus(data, o) = "ok" THEN "none"
            ELSE IF o = "unavailable" THEN "StorageUnavailable"
            ELSE IF o = "error" THEN "StorageFault"
            ELSE IF RequestFails(data, o) THEN "ConstraintError"
            ELSE "DataError",
            EmptyData)

importData(i, o) ==
    /\ queue[i].op = "importData"
    /\ transactions' = ImportedTransactions(queue[i].arg, o, transactions)
    /\ categories' = ImportedCategories(queue[i].arg, o, categories)
    /\ queue' = Remove(queue, i) \o ImportSpawned(queue[i].arg, o)
    /\ last' = ImportSettles(queue[i].arg, o)
    /\ mirror' = Started(ImportSpawned(queue[i].arg, o))
    /\ UNCHANGED <<initState, localStorage, calls, app>>

(***************************************************************************)
(* clearAllData: one readwrite transaction over both stores; the backup    *)
(* entries are removed and the promise resolved in transaction.oncomplete, *)
(* and rejected in transaction.onerror.  removable = localStorage.removeItem *)
(* does not throw.                                                         *)
(***************************************************************************)
\* oncomplete ran to its end (resolve), a request failed or the database is not
\* open (reject); after a failed commit, or a throw in oncomplete, nothing settles
ClearStatus(o, removable) ==
    IF o = "complete" THEN (IF removable THEN "ok" ELSE "never")
    ELSE IF o = "abort" THEN "never"
    ELSE "error"

ClearSettles(o, removable) ==
    Settled("clearAllData", ClearStatus(o, removable),
            IF ClearStatus(o, removable) # "error" THEN "none"
            ELSE IF o = "unavailable" THEN "StorageUnavailable" ELSE "StorageFault",
            EmptyData)

\* (mutation) oncomplete resolves without removing the backup entries
clearAllDataKeepsBackup(i, o, removable) ==
    /\ queue[i].op = "clearAllData"
    /\ transactions' = IF o = "complete" THEN {} ELSE transactions
    /\ categories' = IF o = "complete" THEN {} ELSE categories
    /\ queue' = Remove(queue, i)
    /\ last' = ClearSettles(o, removable)
    /\ UNCHANGED <<initState, localStorage, mirror, calls, app>>

clearAllData(i, o, removable) ==
    /\ queue[i].op = "clearAllData"
    /\ transactions' = IF o = "complete" THEN {} ELSE transactions
    /\ categories' = IF o = "complete" THEN {} ELSE categories
    /\ localStorage' = IF o = "complete" /\ removable THEN NoBackup ELSE localStorage
    /\ queue' = Remove(queue, i)
    /\ last' = ClearSettles(o, removable)
    /\ UNCHANGED <<initState, mirror, calls, app>>

(***************************************************************************)
(* backupToLocalStorage(type): fire-and-forget, every failure is caught.   *)
(* Each phase is one readonly getAll and the setItem calls that follow it. *)
(* failAt: the setItem call of this phase that throws (0: none).           *)
(***************************************************************************)
\* localStorage.setItem(key, JSON.stringify(await getAll...()))
BackupEntry(store) == <<Stringify(GetAll(store))>>

\* the first setItem of the phase is reached and does not throw
BackupWrites(o, failAt) == o = "complete" /\ failAt # 1

\* type 'both' goes on to the categories after the transactions
BackupContinues(t, o, failAt) ==
    BackupWrites(o, failAt) /\ t.arg.type = "both" /\ t.phase = "transactions"

\* (mutation) the last-sync entry is never written
BackupStampsNever(t, o, failAt) == FALSE

\* localStorage.setItem(BACKUP_KEYS.LAST_SYNC, ...) is reached and does not throw
BackupStamps(t, o, failAt) ==
    BackupWrites(o, failAt) /\ ~BackupContinues(t, o, failAt) /\ failAt # 2

\* the getAll rejects or a setItem throws: the catch block is entered
BackupFails(t, o, failAt) ==
    ~BackupWrites(o, failAt) \/ (~BackupContinues(t, o, failAt) /\ failAt = 2)

\* (mutation) no try/catch: the failure of the backup reaches the caller
backupUncaught(i, o, failAt) ==
    LET t == queue[i]
        key == IF t.phase = "transactions" THEN "TRANSACTIONS" ELSE "CATEGORIES"
        store == IF t.phase = "transactions" THEN transactions ELSE categories
    IN  /\ t.op = "backupToLocalStorage"
        /\ localStorage' =
              [localStorage EXCEPT
                 ![key] = IF BackupWrites(o, failAt) THEN BackupEntry(store) ELSE @,
                 !.LAST_SYNC = IF BackupStamps(t, o, failAt) THEN <<"iso">> ELSE @]
        /\ queue' = Remove(queue, i) \o
                    (IF BackupContinues(t, o, failAt)
                     THEN <<Task("backupToLocalStorage", [type |-> "both"], "categories")>>
                     ELSE <<>>)
        /\ mirror' = IF BackupFails(t, o, failAt) THEN "failed"
                     ELSE IF BackupContinues(t, o, failAt) THEN mirror ELSE "ok"
        /\ last' = IF BackupFails(t, o, failAt)
                   THEN [last EXCEPT !.status = "error", !.error = "StorageFault"]
                   ELSE last
        /\ UNCHANGED <<initState, transactions, categories, calls, app>>

backupToLocalStorage(i, o, failAt) ==
    LET t == queue[i]
        key == IF t.phase = "transactions" THEN "TRANSACTIONS" ELSE "CATEGORIES"
        store == IF t.phase = "transactions" THEN transactions ELSE categories
    IN  /\ t.op = "backupToLocalStorage"
        /\ localStorage' =
              [localStorage EXCEPT
                 ![key] = IF BackupWrites(o, failAt) THEN BackupEntry(store) ELSE @,
                 !.LAST_SYNC = IF BackupStamps(t, o, failAt) THEN <<"iso">> ELSE @]
        /\ queue' = Remove(queue, i) \o
                    (IF BackupContinues(t, o, failAt)
                     THEN <<Task("backupToLocalStorage", [type |-> "both"], "categories")>>
                     ELSE <<>>)
        /\ mirror' = IF BackupFails(t, o, failAt) THEN "failed"
                     ELSE IF BackupContinues(t, o, failAt) THEN mirror ELSE "ok"
        /\ UNCHANGED <<initState, transactions, categories, last, calls, app>>

(***************************************************************************)
(* checkAndRecoverData.  getAllData is the two getAll transactions, both   *)
(* created at the call; readable = localStorage.getItem does not throw.    *)
(***************************************************************************)
RecoverySettled(status, path, result) ==
    [op |-> "checkAndRecoverData", status |-> status, error |-> "none", path |-> path,
     result |-> result]

\* (mutation) the backup is restored whenever there is one
NeedsRestoreAlways(data) == TRUE

\* (mutation) `||` for `&&`
NeedsRestoreEither(data) == Len(data.transactions) = 0 \/ Len(data.categories) = 0

\* data.transactions.length === 0 && data.categories.length === 0
NeedsRestore(data) == Len(data.transactions) = 0 /\ Len(data.categories) = 0

\* (mutation) the catch block rethrows when there is no snapshot
FallbackRethrows(ls, readable) ==
    IF RestoreFromLocalStorage(ls, readable) # <<>>
    THEN RecoverySettled("ok", "fallback", RestoreFromLocalStorage(ls, readable)[1])
    ELSE [RecoverySettled("error", "empty", EmptyData) EXCEPT !.error = "StorageFault"]

\* (mutation) the catch block returns empty data without reading the backup
FallbackEmpty(ls, readable) == RecoverySettled("ok", "empty", EmptyData)

\* the catch block: the backup snapshot, or empty data
Fallback(ls, readable) ==
    IF RestoreFromLocalStorage(ls, readable) # <<>>
    THEN RecoverySettled("ok", "fallback", RestoreFromLocalStorage(ls, readable)[1])
    ELSE RecoverySettled("ok", "empty", EmptyData)

\* the snapshot that is imported after a successful read, <<>> when there is none
ToImport(data, o, ls, readable) ==
    IF o = "complete" /\ NeedsRestore(data) THEN RestoreFromLocalStorage(ls, readable) ELSE <<>>

checkAndRecoverData(i, o, readable) ==
    LET data == [transactions |-> GetAll(transactions), categories |-> GetAll(categories)]
        backupData == ToImport(data, o, localStorage, readable)
    IN  /\ queue[i].op = "checkAndRecoverData"
        /\ queue[i].phase = "getAllData"
        /\ IF backupData # <<>>
           THEN /\ queue' = Remove(queue, i) \o
                            <<Task("checkAndRecoverData", backupData[1], "importData")>>
                /\ last' = last
           ELSE /\ queue' = Remove(queue, i)
                /\ last' = IF o = "complete"
                           THEN RecoverySettled("ok", "primary", data)
                           ELSE Fallback(localStorage, readable)
        /\ UNCHANGED <<initState, transactions, categories, localStorage, mirror, calls, app>>

\* await this.importData(backupData); return backupData  -- or the catch block
RecoveryImportSettles(data, o, ls, readable) ==
    IF ImportStatus(data, o) = "ok" THEN RecoverySettled("ok", "restored", data)
    ELSE Fallback(ls, readable)

checkAndRecoverData_importData(i, o, readable) ==
    /\ queue[i].op = "checkAndRecoverData"
    /\ queue[i].phase = "importData"
    /\ transactions' = ImportedTransactions(queue[i].arg, o, transactions)
    /\ categories' = ImportedCategories(queue[i].arg, o, categories)
    /\ queue' = Remove(queue, i) \o ImportSpawned(queue[i].arg, o)
    /\ last' = RecoveryImportSettles(queue[i].arg, o, localStorage, readable)
    /\ mirror' = Started(ImportSpawned(queue[i].arg, o))
    /\ UNCHANGED <<initState, localStorage, calls, app>>

(***************************************************************************)
(* getStorageInfo: getAllData inside try/catch, then                       *)
(* localStorage.getItem(LAST_SYNC) outside of it (readable = it does not   *)
(* throw).                                                                 *)
(***************************************************************************)
StorageInfo(o, ls) ==
    [indexedDBAvailable |-> o = "complete",
     lastSync |-> ls.LAST_SYNC,
     dataCount |-> IF o = "complete"
                   THEN [transactions |-> Cardinality(transactions),
                         categories |-> Cardinality(categories)]
                   ELSE [transactions |-> 0, categories |-> 0]]

getStorageInfo(i, o, readable) ==
    /\ queue[i].op = "getStorageInfo"
    /\ queue' = Remove(queue, i)
    /\ last' = IF readable
               THEN Settled("getStorageInfo", "ok", "none", StorageInfo(o, localStorage))
               ELSE Settled("getStorageInfo", "error", "SecurityError", EmptyData)
    /\ UNCHANGED <<initState, transactions, categories, localStorage, mirror, calls, app>>

(***************************************************************************)
(* AppProvider: initializeData, run once by the mount effect.  Each await  *)
(* is a call put in the queue; the code after it runs when that call has   *)
(* settled.                                                                *)
(***************************************************************************)
\* the reducer's SET_DATA
SetData(state, data) ==
    [state EXCEPT !.transactions = data.transactions,
                  !.categories = IF Len(data.categories) > 0 THEN data.categories
                                 ELSE defaultCategories,
                  !.isLoading = FALSE]

\* the catch block of initializeData
InitFailed(state, message) ==
    [SetData(state, [transactions |-> <<>>, categories |-> defaultCategories])
        EXCEPT !.initError = message, !.step = "failed"]

\* the awaited call has settled
Awaited(op) == NumCallers(queue) = 0 /\ last.op = op

\* await an operation of the service
Await(t) ==
    /\ queue' = Append(queue, t)
    /\ UNCHANGED <<initState, transactions, categories, localStorage, last, mirror, calls>>

\* dispatch SET_DATA, then await storageService.getInfo()
AppSetData(data) ==
    /\ app' = [SetData(app, data) EXCEPT !.step = "getInfo"]
    /\ Await(Task("getStorageInfo", [all |-> TRUE], "getAllData"))

\* useEffect: SET_LOADING true, await storageService.loadData()
AppMount ==
    /\ app.step = "unmounted"
    /\ app' = [app EXCEPT !.step = "loadData", !.isLoading = TRUE]
    /\ Await(Task("checkAndRecoverData", [all |-> TRUE], "getAllData"))

\* loadData returned: seed the defaults when there is no category, else SET_DATA
AppLoaded ==
    /\ app.step = "loadData"
    /\ Awaited("checkAndRecoverData")
    /\ IF Len(last.result.categories) = 0
       THEN /\ app' = [app EXCEPT !.step = "seeding", !.idx = 1,
                                  !.loaded = last.result.transactions]
            /\ Await(Task("saveCategory", [record |-> defaultCategories[1]], "put"))
       ELSE AppSetData(last.result)

\* one turn of `for (const category of defaultCategories) await saveCategory(category)`
AppSeeded ==
    /\ app.step = "seeding"
    /\ Awaited("saveCategory")
    /\ IF last.status # "ok"
       THEN /\ app' = InitFailed(app, last.error)
            /\ UNCHANGED <<initState, transactions, categories, localStorage, queue, last,
                           mirror, calls>>
       ELSE IF app.idx < Len(defaultCategories)
       THEN /\ app' = [app EXCEPT !.idx = @ + 1]
            /\ Await(Task("saveCategory", [record |-> defaultCategories[app.idx + 1]], "put"))
       ELSE AppSetData([transactions |-> app.loaded, categories |-> defaultCategories])

\* getInfo returned: SET_STORAGE_INFO, or the catch block
AppInfo ==
    /\ app.step = "getInfo"
    /\ Awaited("getStorageInfo")
    /\ app' = IF last.status = "ok"
              THEN [app EXCEPT !.storageInfo = <<last.result>>, !.step = "done"]
              ELSE InitFailed(app, last.error)
    /\ UNCHANGED <<initState, transactions, categories, localStorage, queue, last, mirror,
                   calls>>

(***************************************************************************)
(* The next-state relation.                                                *)
(***************************************************************************)
Invoke(t) ==
    /\ calls' = calls + 1
    /\ queue' = Append(queue, t)
    /\ UNCHANGED <<initState, transactions, categories, localStorage, last, mirror, app>>

CallSaveTransaction ==
    /\ MayCall
    /\ \E r \in TxInputs : Invoke(Task("saveTransaction", [record |-> r], "put"))

CallUpdateTransaction ==
    /\ MayCall
    /\ \E id \in TxIds, u \in TxPatches :
          Invoke(Task("updateTransaction", [id |-> id, updates |-> u], "get"))

CallDeleteTransaction ==
    /\ MayCall
    /\ \E id \in TxIds : Invoke(Task("deleteTransaction", [id |-> id], "delete"))

CallGetAllTransactions ==
    /\ MayCall
    /\ Invoke(Task("getAllTransactions", [all |-> TRUE], "getAll"))

CallSaveCategory ==
    /\ MayCall
    /\ \E r \in CatInputs : Invoke(Task("saveCategory", [record |-> r], "put"))

CallUpdateCategory ==
    /\ MayCall
    /\ \E id \in CatIds, u \in CatPatches :
          Invoke(Task("updateCategory", [id |-> id, updates |-> u], "get"))

CallDeleteCategory ==
    /\ MayCall
    /\ \E id \in CatIds : Invoke(Task("deleteCategory", [id |-> id], "delete"))

CallGetAllCategories ==
    /\ MayCall
    /\ Invoke(Task("getAllCategories", [all |-> TRUE], "getAll"))

CallImportData ==
    /\ MayCall
    /\ \E d \in ImportInputs : Invoke(Task("importData", d, "clear"))

CallClearAllData ==
    /\ MayCall
    /\ Invoke(Task("clearAllData", [all |-> TRUE], "clear"))

CallCheckAndRecoverData ==
    /\ MayCall
    /\ Invoke(Task("checkAndRecoverData", [all |-> TRUE], "getAllData"))

RunSaveTransaction ==
    /\ queue # <<>>
    /\ \E i \in DOMAIN queue : \E o \in Outcomes(i) : saveTransaction(i, o)

RunUpdateTransaction ==
    /\ queue # <<>>
    /\ \E i \in DOMAIN queue : \E o \in Outcomes(i) : updateTransaction(i, o)

RunDeleteTransaction ==
    /\ queue # <<>>
    /\ \E i \in DOMAIN queue : \E o \in Outcomes(i) : deleteTransaction(i, o)

RunGetAllTransactions ==
    /\ queue # <<>>
    /\ \E i \in DOMAIN queue : \E o \in Outcomes(i) : getAllTransactions(i, o)

RunSaveCategory ==
    /\ queue # <<>>
    /\ \E i \in DOMAIN queue : \E o \in Outcomes(i) : saveCategory(i, o)

RunUpdateCategory ==
    /\ queue # <<>>
    /\ \E i \in DOMAIN queue : \E o \in Outcomes(i) : updateCategory(i, o)

RunDeleteCategory ==
    /\ queue # <<>>
    /\ \E i \in DOMAIN queue : \E o \in Outcomes(i) : deleteCategory(i, o)

RunGetAllCategories ==
    /\ queue # <<>>
    /\ \E i \in DOMAIN queue : \E o \in Outcomes(i) : getAllCategories(i, o)

RunImportData ==
    /\ queue # <<>>
    /\ \E i \in DOMAIN queue : \E o \in Outcomes(i) : importData(i, o)

RunClearAllData ==
    /\ queue # <<>>
    /\ \E i \in DOMAIN queue : \E o \in Outcomes(i) : \E removable \in BOOLEAN :
          clearAllData(i, o, removable)

RunBackup ==
    /\ queue # <<>>
    /\ \E i \in DOMAIN queue : \E o \in Outcomes(i) : \E failAt \in 0..2 :
          backupToLocalStorage(i, o, failAt)

RunRecoveryRead ==
    /\ queue # <<>>
    /\ \E i \in DOMAIN queue : \E o \in Outcomes(i) : \E readable \in BOOLEAN :
          checkAndRecoverData(i, o, readable)

RunRecoveryImport ==
    /\ queue # <<>>
    /\ \E i \in DOMAIN queue : \E o \in Outcomes(i) : \E readable \in BOOLEAN :
          checkAndRecoverData_importData(i, o, readable)

\* a step of an operation in flight
Run ==
    \/ RunSaveTransaction
    \/ RunUpdateTransaction
    \/ RunDeleteTransaction
    \/ RunGetAllTransactions
    \/ RunSaveCategory
    \/ RunUpdateCategory
    \/ RunDeleteCategory
    \/ RunGetAllCategories
    \/ RunImportData
    \/ RunClearAllData
    \/ RunBackup
    \/ RunRecoveryRead
    \/ RunRecoveryImport

Next ==
    \/ OpenSuccess
    \/ OpenError
    \/ Reload
    \/ CallSaveTransaction
    \/ CallUpdateTransaction
    \/ CallDeleteTransaction
    \/ CallGetAllTransactions
    \/ CallSaveCategory
    \/ CallUpdateCategory
    \/ CallDeleteCategory
    \/ CallGetAllCategories
    \/ CallImportData
    \/ CallClearAllData
    \/ CallCheckAndRecoverData
    \/ Run

Spec == Init /\ [][Next]_vars

(***************************************************************************)
(* One process lifetime, with progress: the open request ends in onsuccess *)
(* or onerror, and the engine runs every transaction that can start.       *)
(***************************************************************************)
Open == OpenSuccess \/ OpenError

NextLive ==
    \/ OpenSuccess
    \/ OpenError
    \/ CallSaveTransaction
    \/ CallUpdateTransaction
    \/ CallDeleteTransaction
    \/ CallGetAllTransactions
    \/ CallSaveCategory
    \/ CallUpdateCategory
    \/ CallDeleteCategory
    \/ CallGetAllCategories
    \/ CallImportData
    \/ CallClearAllData
    \/ CallCheckAndRecoverData
    \/ Run

SpecLive == Init /\ [][NextLive]_vars /\ WF_vars(Open) /\ WF_vars(Run)

(***************************************************************************)
(* The start of the application: the mount effect's initializeData and the *)
(* operations it awaits.  The backup may also have been written by hand    *)
(* with a single category that has no id (CategoryOnly).                   *)
(***************************************************************************)
CategoryOnly ==
    { [transactions |-> {}, categories |-> {},
       localStorage |-> [NoBackup EXCEPT !.CATEGORIES = <<Stringify(<<CatNoId>>)>>]],
      [transactions |-> {}, categories |-> {},
       localStorage |-> [NoBackup EXCEPT !.TRANSACTIONS = <<Stringify(<<>>)>>,
                                         !.CATEGORIES = <<Stringify(<<CatNoId>>)>>]] }

InitApp ==
    /\ initState = "Initializing"
    /\ \E p \in Persisted \cup CategoryOnly :
        /\ transactions = p.transactions
        /\ categories = p.categories
        /\ localStorage = p.localStorage
    /\ queue = <<>>
    /\ last = NoLast
    /\ mirror = "none"
    /\ calls = 0
    /\ app = initialState

RunGetStorageInfo ==
    /\ queue # <<>>
    /\ \E i \in DOMAIN queue : \E o \in Outcomes(i) : \E readable \in BOOLEAN :
          getStorageInfo(i, o, readable)

NextApp ==
    \/ OpenSuccess
    \/ OpenError
    \/ AppMount
    \/ AppLoaded
    \/ AppSeeded
    \/ AppInfo
    \/ RunRecoveryRead
    \/ RunRecoveryImport
    \/ RunSaveCategory
    \/ RunBackup
    \/ RunGetStorageInfo

SpecApp == InitApp /\ [][NextApp]_vars

(***************************************************************************)
(* Deletes, a restart and the recovery at the next start.  Both tiers      *)
(* start in sync (InSync: what a session whose backups all ran leaves), so *)
(* a record of the backup that the primary store lacks is one that a       *)
(* delete call removed.                                                    *)
(***************************************************************************)
InSync ==
    { [transactions |-> {T1}, categories |-> {}, localStorage |-> Synced({T1}, {})],
      [transactions |-> {T1}, categories |-> {CatA}, localStorage |-> Synced({T1}, {CatA})] }

InitRestart ==
    /\ initState = "Initializing"
    /\ \E p \in InSync :
        /\ transactions = p.transactions
        /\ categories = p.categories
        /\ localStorage = p.localStorage
    /\ queue = <<>>
    /\ last = NoLast
    /\ mirror = "none"
    /\ calls = 0
    /\ app = initialState

NextRestart ==
    \/ OpenSuccess
    \/ OpenError
    \/ Reload
    \/ AppMount
    \/ CallDeleteTransaction
    \/ CallDeleteCategory
    \/ RunDeleteTransaction
    \/ RunDeleteCategory
    \/ RunBackup
    \/ RunRecoveryRead
    \/ RunRecoveryImport

SpecRestart == InitRestart /\ [][NextRestart]_vars

(***************************************************************************)
(* checkAndRecoverData alone, called once or twice, from every kind of     *)
(* backup: none, in sync, with one entry only, with an unparseable entry.  *)
(***************************************************************************)
Corrupted ==
    { [transactions |-> {}, categories |-> {},
       localStorage |-> [Synced({T1}, {CatA}) EXCEPT !.TRANSACTIONS = <<Corrupt>>]],
      [transactions |-> {}, categories |-> {},
       localStorage |-> [Synced({T1}, {CatA}) EXCEPT !.CATEGORIES = <<Corrupt>>]] }

InitRecovery ==
    /\ initState = "Initializing"
    /\ \E p \in Persisted \cup CategoryOnly \cup Corrupted :
        /\ transactions = p.transactions
        /\ categories = p.categories
        /\ localStorage = p.localStorage
    /\ queue = <<>>
    /\ last = NoLast
    /\ mirror = "none"
    /\ calls = 0
    /\ app = initialState

NextRecovery ==
    \/ OpenSuccess
    \/ OpenError
    \/ CallCheckAndRecoverData
    \/ RunRecoveryRead
    \/ RunRecoveryImport
    \/ RunBackup

SpecRecovery == InitRecovery /\ [][NextRecovery]_vars

(***************************************************************************)
(* AppProvider after the start: addTransaction, updateTransaction,         *)
(* deleteTransaction, addCategory, updateCategory, deleteCategory and      *)
(* importData.  Each awaits one call of the service; the code after the    *)
(* await runs as soon as that call has settled, before any other event.    *)
(* app.pending lists the facade calls in flight, app.returned is how the   *)
(* latest finished one came back to its caller.                            *)
(***************************************************************************)
\* what the forms hand to addTransaction / addCategory, and an edit
FormTransaction == [amount |-> 75, type |-> "expense", category |-> "transit"]
FormCategory == [name |-> "food", type |-> "expense", color |-> "#EF4444"]
FormPatches == {[amount |-> 75]}
FacadeCatIds == {"c1", "c2"}
ImportNoCategories == [transactions |-> <<T2>>, categories |-> <<>>]
FacadeImports == {ImportGood, ImportNoCategories, ImportNoId}

\* generateId(): an id no record in sight carries
generateId(ids, store, memory) ==
    ids \ (Keys(store) \cup Keys(Range(memory))
             \cup {c.arg.record.id : c \in {p \in Range(app.pending) : "record" \in DOMAIN p.arg}})

\* throw new Error('... failed, please retry') of the catch blocks
RetryError(facade) == [facade |-> facade, status |-> "error", message |-> "failed, please retry"]

Resolved(facade) == [facade |-> facade, status |-> "ok", message |-> "none"]

\* the state once initializeData has loaded T1 and CatA from the primary store
Mounted ==
    [step |-> "done", idx |-> 0, loaded |-> <<>>,
     transactions |-> <<T1>>, categories |-> <<CatA>>, isLoading |-> FALSE,
     storageInfo |-> <<[indexedDBAvailable |-> TRUE, lastSync |-> <<"iso">>,
                        dataCount |-> [transactions |-> 1, categories |-> 1]]>>,
     initError |-> "none",
     pending |-> <<>>, returned |-> Resolved("none")]

\* the reducer's ADD_, UPDATE_ and DELETE_ actions
Reduce(state, c) ==
    LET store == IF c.facade \in {"addTransaction", "updateTransaction", "deleteTransaction"}
                 THEN "transactions" ELSE "categories"
        list == state[store]
    IN IF c.facade \in {"addTransaction", "addCategory"}
       THEN [state EXCEPT ![store] = Append(list, c.arg.record)]
       ELSE IF c.facade \in {"updateTransaction", "updateCategory"}
       THEN [state EXCEPT ![store] =
                [k \in DOMAIN list |-> IF list[k].id = c.arg.id
                                       THEN Merge(list[k], c.arg.updates) ELSE list[k]]]
       ELSE [state EXCEPT ![store] = SelectSeq(list, LAMBDA r : r.id # c.arg.id)]

\* (mutation) the dispatch is made before the awaited call has settled well
DispatchesAlways(status) == TRUE

\* the dispatch follows the await: it is skipped when the call rejected
Dispatches(status) == status = "ok"

\* an awaited call has settled and the code after the await has not run yet
Due == NumCallers(queue) < Len(app.pending)

\* the call that settled: the oldest pending one awaiting last.op
SettledCall ==
    CHOOSE k \in DOMAIN app.pending :
        /\ app.pending[k].awaits = last.op
        /\ \A j \in 1..(k - 1) : app.pending[j].awaits # last.op

FacadeMayCall ==
    /\ initState = "Ready"
    /\ app.step = "done"
    /\ ~Due
    /\ calls < MaxCalls
    /\ NumCallers(queue) < MaxOps

\* everything up to the await of a facade mutation
FacadeInvoke(facade, t) ==
    /\ calls' = calls + 1
    /\ queue' = Append(queue, t)
    /\ app' = [app EXCEPT !.pending =
                  Append(@, [facade |-> facade, awaits |-> t.op, arg |-> t.arg])]
    /\ UNCHANGED <<initState, transactions, categories, localStorage, last, mirror>>

AddTransaction ==
    /\ FacadeMayCall
    /\ \E id \in generateId(TxIds, transactions, app.transactions) :
          FacadeInvoke("addTransaction",
              Task("saveTransaction",
                   [record |-> Merge(FormTransaction, [id |-> id, createdAt |-> "d2"])], "put"))

UpdateTransaction ==
    /\ FacadeMayCall
    /\ \E id \in TxIds, u \in FormPatches :
          FacadeInvoke("updateTransaction",
              Task("updateTransaction", [id |-> id, updates |-> u], "get"))

DeleteTransaction ==
    /\ FacadeMayCall
    /\ \E id \in TxIds :
          FacadeInvoke("deleteTransaction", Task("deleteTransaction", [id |-> id], "delete"))

AddCategory ==
    /\ FacadeMayCall
    /\ \E id \in generateId(FacadeCatIds, categories, app.categories) :
          FacadeInvoke("addCategory",
              Task("saveCategory", [record |-> Merge(FormCategory, [id |-> id])], "put"))

UpdateCategory ==
    /\ FacadeMayCall
    /\ \E id \in FacadeCatIds, u \in CatPatches :
          FacadeInvoke("updateCategory",
              Task("updateCategory", [id |-> id, updates |-> u], "get"))

DeleteCategory ==
    /\ FacadeMayCall
    /\ \E id \in FacadeCatIds :
          FacadeInvoke("deleteCategory", Task("deleteCategory", [id |-> id], "delete"))

\* SET_LOADING true, await storageService.saveData(data)
ImportData ==
    /\ FacadeMayCall
    /\ \E d \in FacadeImports :
        /\ calls' = calls + 1
        /\ queue' = Append(queue, Task("importData", d, "clear"))
        /\ app' = [app EXCEPT !.isLoading = TRUE,
                              !.pending = Append(@, [facade |-> "importData",
                                                     awaits |-> "importData", arg |-> d])]
        /\ UNCHANGED <<initState, transactions, categories, localStorage, last, mirror>>

\* after the await of an add, update or delete: the dispatch, or the catch block
Mutated ==
    /\ Due
    /\ LET c == app.pending[SettledCall]
           rest == Remove(app.pending, SettledCall)
       IN /\ c.facade # "importData"
          /\ app' = [(IF Dispatches(last.status) THEN Reduce(app, c) ELSE app)
                        EXCEPT !.pending = rest,
                               !.returned = IF last.status = "ok" THEN Resolved(c.facade)
                                            ELSE RetryError(c.facade)]
    /\ UNCHANGED <<initState, transactions, categories, localStorage, queue, last, mirror,
                   calls>>

\* after await saveData: SET_DATA and await storageService.getInfo(), or catch and finally
Imported ==
    /\ Due
    /\ LET c == app.pending[SettledCall]
           rest == Remove(app.pending, SettledCall)
       IN /\ c.awaits = "importData"
          /\ IF last.status = "ok"
             THEN /\ app' = [SetData(app, c.arg) EXCEPT !.pending =
                                Append(rest, [facade |-> "importData",
                                              awaits |-> "getStorageInfo", arg |-> c.arg])]
                  /\ queue' = Append(queue, Task("getStorageInfo", [all |-> TRUE], "getAllData"))
             ELSE /\ app' = [app EXCEPT !.pending = rest, !.isLoading = FALSE,
                                        !.returned = RetryError("importData")]
                  /\ UNCHANGED queue
    /\ UNCHANGED <<initState, transactions, categories, localStorage, last, mirror, calls>>

\* after await getInfo: SET_STORAGE_INFO, or the catch block; then finally
Informed ==
    /\ Due
    /\ LET c == app.pending[SettledCall]
           rest == Remove(app.pending, SettledCall)
       IN /\ c.awaits = "getStorageInfo"
          /\ app' = [app EXCEPT !.pending = rest, !.isLoading = FALSE,
                                !.storageInfo = IF last.status = "ok" THEN <<last.result>> ELSE @,
                                !.returned = IF last.status = "ok" THEN Resolved("importData")
                                             ELSE RetryError("importData")]
    /\ UNCHANGED <<initState, transactions, categories, localStorage, queue, last, mirror,
                   calls>>

\* the engine moves only between events: not while code after an await is due
EngineSaveTransaction == ~Due /\ RunSaveTransaction
EngineUpdateTransaction == ~Due /\ RunUpdateTransaction
EngineDeleteTransaction == ~Due /\ RunDeleteTransaction
EngineSaveCategory == ~Due /\ RunSaveCategory
EngineUpdateCategory == ~Due /\ RunUpdateCategory
EngineDeleteCategory == ~Due /\ RunDeleteCategory
EngineImportData == ~Due /\ RunImportData
EngineGetStorageInfo == ~Due /\ RunGetStorageInfo
EngineBackup == ~Due /\ RunBackup

InitFacade ==
    /\ initState = "Ready"
    /\ transactions = {T1}
    /\ categories = {CatA}
    /\ localStorage = Synced({T1}, {CatA})
    /\ queue = <<>>
    /\ last = Settled("getStorageInfo", "ok", "none", Mounted.storageInfo[1])
    /\ mirror = "none"
    /\ calls = 0
    /\ app = Mounted

NextFacade ==
    \/ AddTransaction
    \/ UpdateTransaction
    \/ DeleteTransaction
    \/ AddCategory
    \/ UpdateCategory
    \/ DeleteCategory
    \/ ImportData
    \/ Mutated
    \/ Imported
    \/ Informed
    \/ EngineSaveTransaction
    \/ EngineUpdateTransaction
    \/ EngineDeleteTransaction
    \/ EngineSaveCategory
    \/ EngineUpdateCategory
    \/ EngineDeleteCategory
    \/ EngineImportData
    \/ EngineGetStorageInfo
    \/ EngineBackup

SpecFacade == InitFacade /\ [][NextFacade]_vars

(***************************************************************************)
(* Recovery properties.                                                    *)
(***************************************************************************)
Snapshot(ls) ==
    [transactions |-> ls.TRANSACTIONS[1].json, categories |-> ls.CATEGORIES[1].json]

HasSnapshot(ls) == ls.TRANSACTIONS # <<>> /\ ls.CATEGORIES # <<>>

C2_Fallback ==
    [][\A i \in DOMAIN queue : \A o \in Outcomes(i) :
          (checkAndRecoverData(i, o, TRUE) /\ o # "complete" /\ HasSnapshot(localStorage))
          => /\ last'.op = "checkAndRecoverData"
             /\ last'.status = "ok"
             /\ last'.result = Snapshot(localStorage)
             /\ queue' = Remove(queue, i)
             /\ UNCHANGED <<transactions, categories, localStorage>>]_vars

\* the database never opened and the recovery returned the non-empty snapshot
C2_Witness ==
    /\ initState = "Failed"
    /\ last.op = "checkAndRecoverData"
    /\ last.path = "fallback"
    /\ last.result.transactions # <<>>
    /\ HasSnapshot(localStorage)
    /\ last.result = Snapshot(localStorage)

\* C3: when the primary store is empty or cannot be read, and the backup holds
\* no snapshot (an entry is missing) or cannot be read, checkAndRecoverData
\* resolves with transactions = [] and categories = [].
C3_EmptyBoth ==
    [][\A i \in DOMAIN queue : \A o \in Outcomes(i) : \A readable \in BOOLEAN :
          (/\ checkAndRecoverData(i, o, readable)
           /\ (o # "complete" \/ (transactions = {} /\ categories = {}))
           /\ (~readable \/ ~HasSnapshot(localStorage)))
          => /\ last'.op = "checkAndRecoverData"
             /\ last'.status = "ok"
             /\ last'.result = EmptyData]_vars

\* the database never opened, the backup holds a snapshot that cannot be read,
\* and the recovery returned empty data
C3_Witness ==
    /\ initState = "Failed"
    /\ HasSnapshot(localStorage)
    /\ last.op = "checkAndRecoverData"
    /\ last.status = "ok"
    /\ last.path = "empty"
    /\ last.result = EmptyData

(***************************************************************************)
(* Import and backup properties.                                           *)
(***************************************************************************)
\* C4: an importData that is reported as failed leaves both collections with
\* exactly their pre-import content, and every importData step leaves both
\* collections replaced by the imported data or both as they were: never one
\* collection replaced and the other not.
C4_BothOrNeither ==
    [][\A i \in DOMAIN queue : \A o \in Outcomes(i) :
          importData(i, o)
          => /\ last'.status = "error" => UNCHANGED <<transactions, categories>>
             /\ \/ /\ transactions' = Range(queue[i].arg.transactions)
                   /\ categories' = Range(queue[i].arg.categories)
                \/ UNCHANGED <<transactions, categories>>]_vars

\* the JSON image of a collection: what JSON.parse gives back for its text
JsonImage(store) == {DropUndefined(r) : r \in store}

\* every field value of record b is the value a record of the store has under b's id
Committed(b, store) ==
    \E r \in store : r.id = b.id /\ \A f \in DOMAIN b : f \in DOMAIN r /\ r[f] = b[f]

\* C5: every step that changes the backup entry of a sub-collection either
\* removes the entry or writes the content the primary sub-collection holds
\* after that step, so the entry is always a content the primary holds now or
\* held earlier; each record and field value in it is one committed to the
\* primary store.
C5_BackupNeverAhead ==
    [][/\ localStorage'.TRANSACTIONS # localStorage.TRANSACTIONS
          => \/ localStorage'.TRANSACTIONS = <<>>
             \/ /\ Range(Parse(localStorage'.TRANSACTIONS[1])) = JsonImage(transactions')
                /\ \A b \in Range(Parse(localStorage'.TRANSACTIONS[1])) :
                      Committed(b, transactions')
       /\ localStorage'.CATEGORIES # localStorage.CATEGORIES
          => \/ localStorage'.CATEGORIES = <<>>
             \/ /\ Range(Parse(localStorage'.CATEGORIES[1])) = JsonImage(categories')
                /\ \A b \in Range(Parse(localStorage'.CATEGORIES[1])) :
                      Committed(b, categories')
      ]_vars

\* a backup has run and its transactions entry is behind the primary store
C5_Witness ==
    /\ mirror = "ok"
    /\ localStorage.TRANSACTIONS # <<>>
    /\ Range(Parse(localStorage.TRANSACTIONS[1])) # JsonImage(transactions)
    /\ \E i \in DOMAIN queue : queue[i].op = "backupToLocalStorage"

\* a backupToLocalStorage(type) that was started has not ended yet
BackupPending(type) ==
    \E i \in DOMAIN queue :
        queue[i].op = "backupToLocalStorage" /\ queue[i].arg.type = type

\* the backup entry is the full current content of the collection, with a last-sync stamp
Mirrored(entry, store) ==
    /\ entry = <<Stringify(GetAll(store))>>
    /\ Range(Parse(entry[1])) = JsonImage(store)
    /\ localStorage.LAST_SYNC # <<>>

\* C6: every add, update or delete of a transaction (resp. category) that
\* reports success leaves a backup of that collection started, and a started
\* backup leads to a state where the backup entry of the collection holds the
\* full current content of the collection together with a last-sync
\* timestamp, unless a backup run failed.
C6_MirrorAfterMutation ==
    /\ [][/\ \A i \in DOMAIN queue : \A o \in Outcomes(i) :
               ((saveTransaction(i, o) \/ updateTransaction(i, o) \/ deleteTransaction(i, o))
                  /\ last'.status = "ok")
               => BackupPending("transactions")'
          /\ \A i \in DOMAIN queue : \A o \in Outcomes(i) :
               ((saveCategory(i, o) \/ updateCategory(i, o) \/ deleteCategory(i, o))
                  /\ last'.status = "ok")
               => BackupPending("categories")']_vars
    /\ BackupPending("transactions")
          ~> (Mirrored(localStorage.TRANSACTIONS, transactions) \/ mirror = "failed")
    /\ BackupPending("categories")
          ~> (Mirrored(localStorage.CATEGORIES, categories) \/ mirror = "failed")

\* one transaction was saved into an empty store with no backup, and the
\* backup's transactions entry deserializes to exactly that record
C6_Witness ==
    /\ last.op = "saveTransaction"
    /\ last.status = "ok"
    /\ mirror = "ok"
    /\ queue = <<>>
    /\ categories = {}
    /\ localStorage.CATEGORIES = <<>>
    /\ transactions = {T1}
    /\ localStorage.TRANSACTIONS # <<>>
    /\ Parse(localStorage.TRANSACTIONS[1]) = <<T1>>
    /\ localStorage.LAST_SYNC # <<>>

\* C7: a step of backupToLocalStorage, failing or not, changes neither primary
\* collection nor the way a caller's operation settled; a mutation settles "ok"
\* exactly when its store request succeeded, whatever its backup does.
C7_BackupIsolated ==
    [][/\ \A i \in DOMAIN queue : \A o \in Outcomes(i) : \A failAt \in 0..2 :
            backupToLocalStorage(i, o, failAt)
            => UNCHANGED <<transactions, categories, last>>
       /\ \A i \in DOMAIN queue : \A o \in Outcomes(i) :
            (saveTransaction(i, o) \/ deleteTransaction(i, o)
               \/ saveCategory(i, o) \/ deleteCategory(i, o))
            => (last'.status = "ok") = RequestSucceeds(o)]_vars

\* a saveCategory resolved, its backup failed, and the category is stored
C7_Witness ==
    /\ mirror = "failed"
    /\ last.op = "saveCategory"
    /\ last.status = "ok"
    /\ CatA \in categories
    /\ localStorage.CATEGORIES = <<>>

\* C8: when checkAndRecoverData has read the two collections and at least one
\* is non-empty, it returns what it read, starts no import, and changes neither
\* tier, whatever the backup holds.
C8_PrimaryWins ==
    [][\A i \in DOMAIN queue : \A readable \in BOOLEAN :
          (/\ "complete" \in Outcomes(i)
           /\ checkAndRecoverData(i, "complete", readable)
           /\ (transactions # {} \/ categories # {}))
          => /\ last'.op = "checkAndRecoverData"
             /\ last'.status = "ok"
             /\ Range(last'.result.transactions) = transactions
             /\ Len(last'.result.transactions) = Cardinality(transactions)
             /\ Range(last'.result.categories) = categories
             /\ Len(last'.result.categories) = Cardinality(categories)
             /\ queue' = Remove(queue, i)
             /\ UNCHANGED <<transactions, categories, localStorage>>]_vars

\* a recovery returned the primary content with the categories empty and a
\* different snapshot in the backup
C8_Witness ==
    /\ last.op = "checkAndRecoverData"
    /\ last.path = "primary"
    /\ transactions # {}
    /\ categories = {}
    /\ HasSnapshot(localStorage)
    /\ Snapshot(localStorage).categories # <<>>
    /\ Range(last.result.transactions) = transactions
    /\ last.result.categories = <<>>

(***************************************************************************)
(* Update properties.                                                      *)
(***************************************************************************)
\* C9: updateTransaction/updateCategory with an id no record has is rejected
\* (with the not-found error when the lookup itself succeeded), leaves the
\* collection as it was and starts no backup.
C9_UpdateMissing ==
    [][\A i \in DOMAIN queue : \A o \in Outcomes(i) :
          /\ (updateTransaction(i, o) /\ queue[i].arg.id \notin Keys(transactions))
             => /\ last'.op = "updateTransaction"
                /\ last'.status = "error"
                /\ RequestSucceeds(o) => last'.error = "NotFound"
                /\ queue' = Remove(queue, i)
                /\ UNCHANGED <<transactions, categories, localStorage>>
          /\ (updateCategory(i, o) /\ queue[i].arg.id \notin Keys(categories))
             => /\ last'.op = "updateCategory"
                /\ last'.status = "error"
                /\ RequestSucceeds(o) => last'.error = "NotFound"
                /\ queue' = Remove(queue, i)
                /\ UNCHANGED <<transactions, categories, localStorage>>]_vars

\* an updateTransaction was rejected with the not-found error
C9_Witness ==
    /\ last.op = "updateTransaction"
    /\ last.status = "error"
    /\ last.error = "NotFound"

\* the record `new` is `old` with exactly the fields of `updates` replaced
Patched(old, updates, new) ==
    /\ DOMAIN new = (DOMAIN old) \cup (DOMAIN updates)
    /\ \A f \in DOMAIN updates : new[f] = updates[f]
    /\ \A f \in (DOMAIN old) \ (DOMAIN updates) : new[f] = old[f]

\* the collection after update(id, updates) as C10 describes it
MergedInPlace(store, storeAfter, id, updates) ==
    /\ Keys(storeAfter) = Keys(store)
    /\ \A r \in store : r.id # id => r \in storeAfter
    /\ \A r \in store : r.id = id =>
          \E n \in storeAfter : n.id = id /\ Patched(r, updates, n)

\* C10: a committed update of an existing record leaves under that id the old
\* record with exactly the patch's fields replaced, and every other record of
\* the collection unchanged.
C10_MergeSemantics ==
    [][\A i \in DOMAIN queue :
          /\ ("complete" \in Outcomes(i) /\ updateTransaction(i, "complete")
                /\ queue[i].arg.id \in Keys(transactions))
             => MergedInPlace(transactions, transactions', queue[i].arg.id,
                              queue[i].arg.updates)
          /\ ("complete" \in Outcomes(i) /\ updateCategory(i, "complete")
                /\ queue[i].arg.id \in Keys(categories))
             => MergedInPlace(categories, categories', queue[i].arg.id,
                              queue[i].arg.updates)]_vars

(***************************************************************************)
(* Delete and round-trip properties.                                       *)
(***************************************************************************)
\* the collection after delete(id): the record of that id is gone, nothing else changed
Deleted(store, storeAfter, id) ==
    /\ storeAfter = {r \in store : r.id # id}
    /\ id \notin Keys(storeAfter)
    /\ \A r \in store : r.id # id => r \in storeAfter

\* C11: a committed deleteTransaction(id)/deleteCategory(id) reports success
\* whether or not a record of that id exists, removes that record and no other,
\* and leaves a collection on which the same delete changes nothing (a second
\* call in succession gives the content of one call).
C11_DeleteIdempotent ==
    [][\A i \in DOMAIN queue :
          /\ ("complete" \in Outcomes(i) /\ deleteTransaction(i, "complete"))
             => /\ last'.op = "deleteTransaction"
                /\ last'.status = "ok"
                /\ Deleted(transactions, transactions', queue[i].arg.id)
                /\ Delete(transactions', queue[i].arg.id) = transactions'
                /\ queue[i].arg.id \notin Keys(transactions) => transactions' = transactions
                /\ categories' = categories
          /\ ("complete" \in Outcomes(i) /\ deleteCategory(i, "complete"))
             => /\ last'.op = "deleteCategory"
                /\ last'.status = "ok"
                /\ Deleted(categories, categories', queue[i].arg.id)
                /\ Delete(categories', queue[i].arg.id) = categories'
                /\ queue[i].arg.id \notin Keys(categories) => categories' = categories
                /\ transactions' = transactions]_vars

\* a deleteTransaction has succeeded as the second of two successful mutations
\* of a store that held t1, and the store is empty
C11_Witness ==
    /\ calls = 2
    /\ last.op = "deleteTransaction"
    /\ last.status = "ok"
    /\ transactions = {}
    /\ categories = {CatA}
    /\ \A i \in DOMAIN queue : queue[i].op = "backupToLocalStorage"
    /\ Len(queue) = 2

\* C12: every saveTransaction that reports success, for a transaction whose id
\* is not in the collection, adds exactly that record with every field as
\* given and changes no other, and every getAllTransactions that succeeds
\* returns exactly the records of the collection: so after saves of pairwise
\* distinct ids into an empty collection getAllTransactions returns the set
\* of saved transactions.
C12_RoundTrip ==
    [][\A i \in DOMAIN queue : \A o \in Outcomes(i) :
          /\ (saveTransaction(i, o) /\ last'.status = "ok"
                 /\ queue[i].arg.record.id \notin Keys(transactions))
             => /\ transactions' = transactions \cup {queue[i].arg.record}
                /\ Get(transactions', queue[i].arg.record.id) = <<queue[i].arg.record>>
          /\ (getAllTransactions(i, o) /\ last'.status = "ok")
             => /\ Range(last'.result.transactions) = transactions
                /\ Len(last'.result.transactions) = Cardinality(transactions)]_vars

\* one saveTransaction was called on the empty store and reported success,
\* and the transactions collection is empty
C12_Witness ==
    /\ calls = 1
    /\ last.op = "saveTransaction"
    /\ last.status = "ok"
    /\ transactions = {}
    /\ categories = {}
    /\ localStorage.CATEGORIES = <<>>

(***************************************************************************)
(* Import properties.                                                      *)
(***************************************************************************)
\* C13: after an importData(data) that reports success the transactions
\* collection is exactly data.transactions and the categories collection
\* exactly data.categories (no earlier record survives), and a backup of both
\* collections has been started.
C13_ImportReplaces ==
    [][\A i \in DOMAIN queue : \A o \in Outcomes(i) :
          (importData(i, o) /\ last'.status = "ok")
          => /\ transactions' = Range(queue[i].arg.transactions)
             /\ categories' = Range(queue[i].arg.categories)
             /\ BackupPending("both")']_vars

\* an importData was reported successful and the store still holds the
\* records from before the import
C13_Witness ==
    /\ calls = 1
    /\ last.op = "importData"
    /\ last.status = "ok"
    /\ transactions = {T1}
    /\ categories = {CatA}

\* C14: an importData whose transactions list or categories list holds two
\* records of one id is rejected with an error, starts no backup and leaves
\* both collections as they were; it never reports success.
C14_DuplicateIdsFault ==
    [][\A i \in DOMAIN queue : \A o \in Outcomes(i) :
          (/\ importData(i, o)
           /\ \/ Duplicate(Keyed(queue[i].arg.transactions))
              \/ Duplicate(Keyed(queue[i].arg.categories)))
          => /\ last'.op = "importData"
             /\ last'.status = "error"
             /\ last'.error # "none"
             /\ queue' = Remove(queue, i)
             /\ UNCHANGED <<transactions, categories, localStorage>>]_vars

\* an import with a duplicate id was rejected for the failed add and the
\* store holds what it held before
C14_Witness ==
    /\ calls = 1
    /\ last.op = "importData"
    /\ last.status = "error"
    /\ last.error = "ConstraintError"
    /\ transactions = {T1}
    /\ categories = {CatA}

(***************************************************************************)
(* Initialization properties.                                              *)
(***************************************************************************)
\* the step runs queue[i] as a primary-store operation (save, getAll, update,
\* delete, import, clear)
PrimaryOperation(i, o) ==
    \/ saveTransaction(i, o) \/ updateTransaction(i, o) \/ deleteTransaction(i, o)
    \/ getAllTransactions(i, o)
    \/ saveCategory(i, o) \/ updateCategory(i, o) \/ deleteCategory(i, o)
    \/ getAllCategories(i, o)
    \/ importData(i, o)
    \/ \E removable \in BOOLEAN : clearAllData(i, o, removable)

\* the step starts a new process (a reload): nothing of the old one is left
NewProcess == initState' = "Initializing" /\ queue' = <<>> /\ last' = NoLast

\* C15: within a process the init state only moves Initializing -> Ready or
\* Initializing -> Failed and never leaves Ready or Failed, and once the
\* opening has failed every primary-store operation (save, getAll, update,
\* delete, import, clear) is rejected with the unavailable error and leaves
\* both collections untouched.
C15_FailedInitTerminal ==
    [][/\ initState' # initState
          => \/ initState = "Initializing" /\ initState' \in {"Ready", "Failed"}
             \/ NewProcess
       /\ \A i \in DOMAIN queue : \A o \in Outcomes(i) :
            (initState = "Failed" /\ PrimaryOperation(i, o))
            => /\ last'.op = queue[i].op
               /\ last'.status = "error"
               /\ last'.error = "StorageUnavailable"
               /\ initState' = "Failed"
               /\ UNCHANGED <<transactions, categories, localStorage>>]_vars

\* the opening failed, and a clearAllData called afterwards was rejected as
\* unavailable with the stored data untouched
C15_Witness ==
    /\ initState = "Failed"
    /\ last.op = "clearAllData"
    /\ last.status = "error"
    /\ last.error = "StorageUnavailable"
    /\ transactions = {T1}
    /\ categories = {CatA}

\* every operation waiting before the step is still waiting after it
StillWaiting == Len(queue') >= Len(queue) /\ SubSeq(queue', 1, Len(queue)) = queue

\* the step settles a primary-store operation with a result read from a store
PrimaryRead ==
    /\ last' # last
    /\ last'.status = "ok"
    /\ \/ last'.op \in {"getAllTransactions", "getAllCategories"}
       \/ last'.op = "checkAndRecoverData" /\ last'.path = "primary"

\* C16: while the opening is in progress no operation settles, reads or writes
\* anything and every called operation stays waiting; a collection is written,
\* and a read of a collection returns, only after the opening has succeeded;
\* and the operations called during the opening are not dropped: they all run
\* to their end once the opening has ended (in success or in failure).
C16_InitGate ==
    /\ [][/\ initState = "Initializing"
             => /\ UNCHANGED <<transactions, categories, localStorage, last>>
                /\ StillWaiting
          /\ (transactions' # transactions \/ categories' # categories \/ PrimaryRead)
             => initState = "Ready"]_vars
    /\ (initState = "Initializing" /\ queue # <<>>) ~> (initState # "Initializing" /\ queue = <<>>)

\* two operations called while the database is still being opened are waiting
C16_Witness ==
    /\ initState = "Initializing"
    /\ Len(queue) = 2
    /\ queue[1].op = "saveTransaction"
    /\ queue[2].op = "getAllTransactions"
    /\ last = NoLast

(***************************************************************************)
(* Identity of a stored transaction.                                       *)
(***************************************************************************)
\* every record of the collection is still there under its id with its createdAt,
\* and no id has appeared that was not there
IdentityKept(store, storeAfter) ==
    /\ Keys(storeAfter) \subseteq Keys(store)
    /\ \A r \in store : \A n \in storeAfter :
          n.id = r.id => n.createdAt = r.createdAt

\* C19: no updateTransaction, whatever its patch, changes the id or the
\* createdAt of a stored transaction or leaves a record under an id that was
\* not in the collection before.
C19_ImmutableIdentity ==
    [][\A i \in DOMAIN queue : \A o \in Outcomes(i) :
          updateTransaction(i, o) => IdentityKept(transactions, transactions')]_vars

\* an update of t1 left a copy of it under the id t2 beside the original
C19_Witness ==
    /\ last.op = "updateTransaction"
    /\ last.status = "ok"
    /\ T1 \in transactions
    /\ [T1 EXCEPT !.id = "t2"] \in transactions

(***************************************************************************)
(* Application start properties.                                           *)
(***************************************************************************)
\* initializeData ran to its end without entering its catch block, and it
\* seeded the defaults because loadData returned no category
SeededStart == app.step = "done" /\ app.idx = Len(defaultCategories)

\* C17: when the application's initialization has completed successfully and
\* recovery returned no category, the state in memory holds the 11 default
\* categories (4 income, 7 expense) and the primary categories collection
\* holds each of them.
C17_CategoriesSeeded ==
    SeededStart
    => /\ app.categories = defaultCategories
       /\ Len(app.categories) = 11
       /\ Cardinality({i \in DOMAIN app.categories : app.categories[i].type = "income"}) = 4
       /\ Cardinality({i \in DOMAIN app.categories : app.categories[i].type = "expense"}) = 7
       /\ Range(defaultCategories) \subseteq categories

\* a start from two empty tiers that seeded and persisted all the defaults
C17_Witness ==
    /\ SeededStart
    /\ app.initError = "none"
    /\ app.categories = defaultCategories
    /\ categories = Range(defaultCategories)
    /\ transactions = {}

\* C18: when the database could not be opened and the backup gave nothing,
\* initializeData ends with loading finished, an empty transaction list and
\* no initialization error.
C18_UsableOnTotalFailure ==
    (initState = "Failed" /\ localStorage = NoBackup /\ app.step \in {"done", "failed"})
    => /\ ~app.isLoading
       /\ app.transactions = <<>>
       /\ app.initError = "none"

\* both tiers gave nothing and initializeData has ended
C18_Witness ==
    /\ initState = "Failed"
    /\ localStorage = NoBackup
    /\ app.step \in {"done", "failed"}
    /\ ~app.isLoading
    /\ app.transactions = <<>>

(***************************************************************************)
(* The category-only backup scenario.                                      *)
(***************************************************************************)
\* the backup holds the one category {name, type} and no transaction: its
\* transactions entry is an empty list or is not there
CategoryOnlyBackup(ls) ==
    /\ ls.CATEGORIES = <<Stringify(<<CatNoId>>)>>
    /\ ls.TRANSACTIONS \in {<<>>, <<Stringify(<<>>)>>}

\* the step is the one in which checkAndRecoverData returns
RecoveryReturns ==
    /\ last'.op = "checkAndRecoverData"
    /\ NumCallers(queue') < NumCallers(queue)

\* C20: from an empty primary store and a backup holding exactly one category
\* {name, type} and no transactions, a checkAndRecoverData whose storage
\* requests all succeed and commit returns with the primary categories
\* collection holding exactly that category.
C20_CategoryOnlyBackup ==
    [][\A i \in DOMAIN queue :
          /\ ( /\ transactions = {} /\ categories = {}
               /\ CategoryOnlyBackup(localStorage)
               /\ "complete" \in Outcomes(i)
               /\ checkAndRecoverData(i, "complete", TRUE)
               /\ RecoveryReturns )
             => categories' = {CatNoId}
          /\ ( /\ "complete" \in Outcomes(i)
               /\ checkAndRecoverData_importData(i, "complete", TRUE)
               /\ queue[i].arg = [transactions |-> <<>>, categories |-> <<CatNoId>>] )
             => categories' = {CatNoId}]_vars

\* recovery has returned the backup's category (the transactions entry was an
\* empty list) while the primary categories collection is still empty
C20_Witness ==
    /\ initState = "Ready"
    /\ CategoryOnlyBackup(localStorage)
    /\ last.op = "checkAndRecoverData"
    /\ last.status = "ok"
    /\ last.result.categories = <<CatNoId>>
    /\ categories = {}

(***************************************************************************)
(* Category delete and the transactions.                                   *)
(***************************************************************************)
\* the transaction is labelled with the category's name and type
References(t, c) == t.category = c.name /\ t.type = c.type

\* C21: deleteCategory leaves the transactions collection and the whole backup
\* as they are, and the categories backup it starts leaves the transactions
\* collection and the transactions backup entry as they are, whether or not
\* a stored transaction is labelled with the deleted category.
C21_NoCascade ==
    [][\A i \in DOMAIN queue : \A o \in Outcomes(i) :
          /\ deleteCategory(i, o) => UNCHANGED <<transactions, localStorage>>
          /\ \A failAt \in 0..2 :
                (backupToLocalStorage(i, o, failAt) /\ queue[i].arg.type = "categories")
                => /\ UNCHANGED transactions
                   /\ localStorage'.TRANSACTIONS = localStorage.TRANSACTIONS]_vars

\* the category of T1's label was deleted and its backup has run; T1 is still
\* stored and still in the transactions backup entry, with its label
C21_Witness ==
    /\ last.op = "deleteCategory"
    /\ last.status = "ok"
    /\ References(T1, CatA)
    /\ categories = {}
    /\ transactions = {T1}
    /\ mirror = "ok"
    /\ localStorage.CATEGORIES = <<Stringify(<<>>)>>
    /\ localStorage.TRANSACTIONS = <<Stringify(<<T1>>)>>

(***************************************************************************)
(* Overlapping mutations of one record.                                    *)
(***************************************************************************)
\* queue[i] overlaps another mutation of the transactions: a call of the same
\* operation on the same record is in flight too, or a mutation ran after
\* queue[i] was called (its backup was started behind it)
Overlaps(i) ==
    \/ \E j \in DOMAIN queue :
          j # i /\ queue[j].op = queue[i].op /\ queue[j].arg.id = queue[i].arg.id
    \/ \E j \in DOMAIN queue :
          j > i /\ queue[j].op = "backupToLocalStorage" /\ queue[j].phase = "transactions"

\* C23: an update whose execution overlaps another mutation of the record is
\* one atomic read-merge-write on the record as committed at that moment: it
\* replaces exactly its patch's fields (so of two overlapping updates the one
\* that runs later wins on the fields both set, and a field set by only one
\* of them is kept), and changes no other record; an overlapping delete
\* succeeds whether or not the other delete came first, leaves the record
\* absent and every other record intact.  (Patches of the mutable fields.)
C23_OverlappingMutations ==
    [][\A i \in DOMAIN queue : \A o \in Outcomes(i) :
          /\ (updateTransaction(i, o) /\ Overlaps(i) /\ "id" \notin DOMAIN queue[i].arg.updates)
             => IF o = "complete" /\ queue[i].arg.id \in Keys(transactions)
                THEN MergedInPlace(transactions, transactions', queue[i].arg.id,
                                   queue[i].arg.updates)
                ELSE transactions' = transactions
          /\ (deleteTransaction(i, o) /\ Overlaps(i))
             => /\ RequestSucceeds(o) => last'.status = "ok"
                /\ IF o = "complete"
                   THEN Deleted(transactions, transactions', queue[i].arg.id)
                   ELSE transactions' = transactions]_vars

\* two updates of t1 were in flight together and both have run (their two
\* backups are still to run): the later one's amount, the earlier one's category
C23_Witness ==
    /\ Len(queue) = 2
    /\ queue[1].op = "backupToLocalStorage"
    /\ queue[2].op = "backupToLocalStorage"
    /\ last.op = "updateTransaction"
    /\ last.status = "ok"
    /\ transactions = {[T1 EXCEPT !.amount = 75, !.category = "bonus"]}

(***************************************************************************)
(* Storage status.                                                         *)
(***************************************************************************)
\* the report C25 describes for a primary read that succeeded or failed
Report(readOk) ==
    [indexedDBAvailable |-> readOk,
     lastSync |-> localStorage.LAST_SYNC,
     dataCount |-> [transactions |-> IF readOk THEN Cardinality(transactions) ELSE 0,
                    categories |-> IF readOk THEN Cardinality(categories) ELSE 0]]

\* C25: getStorageInfo always completes with a report, whatever tier is
\* available: indexedDBAvailable false and counts 0, 0 when the primary read
\* fails, else true and the current counts; lastSync is the backup's
\* last-sync entry or none; neither tier is changed.
C25_StorageStatus ==
    [][\A i \in DOMAIN queue : \A o \in Outcomes(i) : \A readable \in BOOLEAN :
          getStorageInfo(i, o, readable)
          => /\ last'.op = "getStorageInfo"
             /\ last'.status = "ok"
             /\ last'.result = Report(o = "complete")
             /\ UNCHANGED <<transactions, categories, localStorage>>]_vars

\* a report made while the database could not be opened
C25_Witness ==
    /\ initState = "Failed"
    /\ last.op = "getStorageInfo"
    /\ last.status = "ok"
    /\ last.result.indexedDBAvailable = FALSE
    /\ last.result.dataCount = [transactions |-> 0, categories |-> 0]
    /\ last.result.lastSync = <<"iso">>

(***************************************************************************)
(* Clear all.                                                              *)
(***************************************************************************)
\* the snapshots that the step hands to importData (none when it returns)
HandedToImport ==
    IF /\ Len(queue') = Len(queue)
       /\ queue' # queue
       /\ queue'[Len(queue')].op = "checkAndRecoverData"
       /\ queue'[Len(queue')].phase = "importData"
    THEN {queue'[Len(queue')].arg}
    ELSE {}

\* C26: clearAllData empties both collections in one step or neither, in a
\* transaction whose scope has no metadata store; when it reports success both
\* collections are empty and the three backup entries are gone; and a
\* checkAndRecoverData that reads after that, with no caller operation settled
\* in between, restores nothing (the only snapshot it can find is an empty
\* one), returns empty collections and leaves the primary store empty.
C26_ClearAll ==
    [][\A i \in DOMAIN queue : \A o \in Outcomes(i) : \A b \in BOOLEAN :
          /\ clearAllData(i, o, b)
             => /\ "metadata" \notin Scope(queue[i])
                /\ \/ transactions' = {} /\ categories' = {}
                   \/ UNCHANGED <<transactions, categories>>
                /\ last'.status = "ok"
                   => /\ transactions' = {} /\ categories' = {}
                      /\ localStorage' = NoBackup
          /\ (last.op = "clearAllData" /\ last.status = "ok" /\ checkAndRecoverData(i, o, b))
             => /\ HandedToImport \subseteq {EmptyData}
                /\ RecoveryReturns => last'.result = EmptyData
                /\ transactions' = {} /\ categories' = {}
          /\ ( /\ last.op = "clearAllData" /\ last.status = "ok"
               /\ queue[i].arg = EmptyData
               /\ checkAndRecoverData_importData(i, o, b) )
             => /\ last'.result = EmptyData
                /\ transactions' = {} /\ categories' = {}]_vars

\* a clearAllData of a store that held T1 and CatA has reported success; both
\* collections and the backup are empty and a checkAndRecoverData is waiting
C26_Witness ==
    /\ last.op = "clearAllData"
    /\ last.status = "ok"
    /\ transactions = {} /\ categories = {}
    /\ localStorage = NoBackup
    /\ Len(queue) = 1
    /\ queue[1].op = "checkAndRecoverData"

(***************************************************************************)
(* Deleted records and recovery.                                           *)
(***************************************************************************)
\* C27: the recovery at a start never puts into the primary store a record
\* that a successful delete removed: under SpecRestart every record the store
\* lacks was removed by a delete that reported success and committed, and no
\* call adds or imports, so recovery may add no record at all.
C27_NoResurrection ==
    [][\A i \in DOMAIN queue : \A o \in Outcomes(i) : \A b \in BOOLEAN :
          checkAndRecoverData_importData(i, o, b)
          => /\ transactions' \subseteq transactions
             /\ categories' \subseteq categories]_vars

\* t1 was deleted (the store holds nothing any more), the process has
\* restarted with the backup still holding t1, and the recovery of the new
\* start is waiting for the database to open
C27_Witness ==
    /\ initState = "Initializing"
    /\ calls = 2
    /\ transactions = {} /\ categories = {}
    /\ localStorage = Synced({T1}, {})
    /\ app.step = "loadData"
    /\ Len(queue) = 1
    /\ queue[1].op = "checkAndRecoverData"

(***************************************************************************)
(* Durability of a reported success.                                       *)
(***************************************************************************)
\* the collection holds a record carrying every field value of the patch
HoldsPatch(store, updates) ==
    \E n \in store : \A f \in DOMAIN updates : f \in DOMAIN n /\ n[f] = updates[f]

\* C28: in the step in which a mutation or an import reports success to its
\* caller, its effect is in the committed primary store: the saved record is
\* stored, the patch's values are stored, the deleted id is absent, the
\* imported lists are the two collections.
C28_SuccessIsDurable ==
    [][\A i \in DOMAIN queue : \A o \in Outcomes(i) :
          /\ (saveTransaction(i, o) /\ last'.status = "ok")
             => queue[i].arg.record \in transactions'
          /\ (saveCategory(i, o) /\ last'.status = "ok")
             => queue[i].arg.record \in categories'
          /\ (updateTransaction(i, o) /\ last'.status = "ok")
             => HoldsPatch(transactions', queue[i].arg.updates)
          /\ (updateCategory(i, o) /\ last'.status = "ok")
             => HoldsPatch(categories', queue[i].arg.updates)
          /\ (deleteTransaction(i, o) /\ last'.status = "ok")
             => queue[i].arg.id \notin Keys(transactions')
          /\ (deleteCategory(i, o) /\ last'.status = "ok")
             => queue[i].arg.id \notin Keys(categories')
          /\ (importData(i, o) /\ last'.status = "ok")
             => /\ transactions' = Range(queue[i].arg.transactions)
                /\ categories' = Range(queue[i].arg.categories)]_vars

\* an import has reported success and the store still holds the old content
C28_Witness ==
    /\ last.op = "importData"
    /\ last.status = "ok"
    /\ transactions = {T1}
    /\ categories = {CatA}

(***************************************************************************)
(* Recovery never faults.                                                  *)
(***************************************************************************)
\* a value with a transactions list and a categories list
IsData(d) ==
    /\ DOMAIN d = {"transactions", "categories"}
    /\ DOMAIN d.transactions = 1..Len(d.transactions)
    /\ DOMAIN d.categories = 1..Len(d.categories)

\* the backup gives no snapshot: an entry is missing or does not parse
Unusable(ls) ==
    \/ ls.TRANSACTIONS = <<>> \/ ls.CATEGORIES = <<>>
    \/ "json" \notin DOMAIN ls.TRANSACTIONS[1]
    \/ "json" \notin DOMAIN ls.CATEGORIES[1]

\* the steps of checkAndRecoverData
RecoveryStep(i, o, b) == checkAndRecoverData(i, o, b) \/ checkAndRecoverData_importData(i, o, b)

\* C29: checkAndRecoverData always returns a data value and never an error;
\* when the import of the snapshot fails it returns what the fallback path
\* returns (the snapshot read again, else empty data); a backup with a missing
\* or unparseable entry counts as no snapshot: nothing is imported and the
\* primary data, or empty data when the primary read failed, is returned.
C29_RecoveryNeverFaults ==
    [][\A i \in DOMAIN queue : \A o \in Outcomes(i) : \A b \in BOOLEAN :
          /\ (RecoveryStep(i, o, b) /\ RecoveryReturns)
             => /\ last'.status = "ok" /\ last'.error = "none"
                /\ IsData(last'.result)
          /\ (checkAndRecoverData_importData(i, o, b) /\ last'.path # "restored")
             => last'.result = IF b /\ ~Unusable(localStorage) THEN Snapshot(localStorage)
                               ELSE EmptyData
          /\ (checkAndRecoverData(i, o, b) /\ Unusable(localStorage))
             => /\ HandedToImport = {}
                /\ last'.result = IF o = "complete"
                                  THEN [transactions |-> GetAll(transactions),
                                        categories |-> GetAll(categories)]
                                  ELSE EmptyData]_vars

\* recovery has returned empty data from an empty primary store and a backup
\* whose transactions entry does not parse
C29_Witness ==
    /\ last.op = "checkAndRecoverData"
    /\ last.status = "ok"
    /\ last.result = EmptyData
    /\ localStorage.TRANSACTIONS = <<Corrupt>>
    /\ transactions = {} /\ categories = {}

(***************************************************************************)
(* Recovery is idempotent.                                                 *)
(***************************************************************************)
\* the latest operation to return was a checkAndRecoverData that imported a
\* non-empty snapshot, and the primary store holds that snapshot
JustRestored ==
    /\ last.op = "checkAndRecoverData"
    /\ last.path = "restored"
    /\ last.result # EmptyData
    /\ transactions = Range(last.result.transactions)
    /\ categories = Range(last.result.categories)

\* C30: after a checkAndRecoverData has restored a non-empty snapshot into the
\* primary store, the next checkAndRecoverData (no caller operation in
\* between, its reads succeeding) imports nothing, returns the same
\* transactions and categories as sets, and leaves the primary store unchanged.
C30_RecoveryIdempotent ==
    [][\A i \in DOMAIN queue : \A b \in BOOLEAN :
          (JustRestored /\ "complete" \in Outcomes(i) /\ checkAndRecoverData(i, "complete", b))
          => /\ HandedToImport = {}
             /\ RecoveryReturns
             /\ Range(last'.result.transactions) = Range(last.result.transactions)
             /\ Range(last'.result.categories) = Range(last.result.categories)
             /\ UNCHANGED <<transactions, categories>>]_vars

\* a second checkAndRecoverData has returned the restored records from the
\* primary store (the first one's import had started a backup)
C30_Witness ==
    /\ calls = 2
    /\ last.op = "checkAndRecoverData"
    /\ last.path = "primary"
    /\ Range(last.result.transactions) = {T1}
    /\ Range(last.result.categories) = {CatA}
    /\ transactions = {T1} /\ categories = {CatA}
    /\ mirror # "none"

(***************************************************************************)
(* Facade properties.                                                      *)
(***************************************************************************)
FacadeMutations ==
    {"addTransaction", "updateTransaction", "deleteTransaction",
     "addCategory", "updateCategory", "deleteCategory"}

\* the awaited call of a facade add, update or delete has just rejected
MutationRejected ==
    /\ Due
    /\ app.pending[SettledCall].facade \in FacadeMutations
    /\ last.status # "ok"

Quiescent ==
    /\ initState = "Ready"
    /\ app.step = "done"
    /\ app.pending = <<>>

\* C24: whenever no facade operation is in progress after a successful
\* initialization, the in-memory transactions and categories are, as sets, the
\* primary store's transactions and categories.
C24_StateMirrorsStorage ==
    Quiescent =>
        /\ Range(app.transactions) = transactions
        /\ Range(app.categories) = categories

\* an import of a file with no category has come back well and nothing was reported
\* failed: the list shows the eleven defaults, the primary store holds no category
C24_Witness ==
    /\ Quiescent
    /\ app.returned = Resolved("importData")
    /\ app.categories = defaultCategories
    /\ categories = {}
    /\ Range(app.transactions) = transactions

====
